---- MODULE Spec2Model ----
(***************************************************************************)
(* The three polled I2C sensor drivers of esphome-custom-components:       *)
(*   LeafWetness      tinovi-leaf-sensor/tinovi_leaf_wetness.h             *)
(*   Sen0590          dfrobot-sen-590/sen0590.h   (single wait, part_000)  *)
(*   Sen0590TwoPhase  dfrobot-sen0590/sen0590.h   (two waits,  part_001)   *)
(* Each driver is a PollingComponent: the scheduler calls update() once    *)
(* per polling interval and loop() on every tick.  All drivers talk to the *)
(* one global Wire object, whose receive buffer they therefore share.      *)
(*                                                                         *)
(* A call of update() or loop() is one atomic step taken at clock value    *)
(* `now` (every millis() of one call returns the same value).              *)
(***************************************************************************)
EXTENDS Integers, Sequences, FiniteSets, TLC

\* ------------------------------------------------------------------ bounds
MaxElapsedLeaf == 420     \* milliseconds of clock that pass with a leaf sensor
MaxElapsedSen == 80       \* the same, with rangefinders only
MaxTriggers == 2          \* update() calls per driver
MaxElapsedLive == 150     \* clock time with rangefinders only (SpecLive)
WrapLead == 60            \* milliseconds left before millis() wraps (SpecWrap)

\* ------------------------------------------------------- program constants
leaf_wait_period == 300     \* tinovi_leaf_wetness.h: #define wait_period 300
sen_wait_period == 50       \* part_000: #define wait_period 50
request_wait_period == 50   \* part_001
read_wait_period == 20      \* part_001
LeafBytes == 4               \* Wire.requestFrom(address, 4)
SenBytes == 2                \* Wire.requestFrom(address, 2)
\* millis() and the timestamps are unsigned long; differences are taken
\* modulo the counter's range.  The counter is 32 bits wide on the ESP
\* targets; TLC's integers stop at 2^31 - 1, so the range is kept at 2^30.
ClockModulus == 2^30

Drivers == {1, 2}
Kinds == {"LeafWetness", "Sen0590", "Sen0590TwoPhase"}
SinglePhase == {"LeafWetness", "Sen0590"}
Rangefinders == {"Sen0590", "Sen0590TwoPhase"}
Deltas == {10, 50, 250}        \* clock steps between calls
CoarseDeltas == {310}          \* the same, when a leaf sensor shares the bus
Bytes == {1, 44, 200}           \* byte values a rangefinder answers with
LeafByteValues == {0, 16, 200}  \* byte values a leaf sensor answers with
Status == {0, 2}            \* Wire.endTransmission(): 0 success, else error

\* one driver alone on the bus, or two drivers sharing it
SingleConfigs == {[i \in Drivers |-> IF i = 1 THEN k ELSE "none"] : k \in Kinds}
SharedConfigs == {[i \in Drivers |-> IF i = 1 THEN "Sen0590" ELSE k] : k \in Kinds}
Configs == SingleConfigs \cup SharedConfigs

AllChannels == {"wetness", "temperature", "distance"}

VARIABLES
    kind,          \* which driver class each instance is
    state,         \* the driver's state member
    startRequest,  \* the driver's startRequest member
    startRead,     \* the driver's startRead member (two-phase driver)
    now,           \* millis()
    left,          \* clock time the scheduler may still let pass
    rx,            \* receive buffer of the shared Wire object
    call,          \* the last call: which method, on which driver, what it saw
    ops,           \* Wire operations performed by the last call
    out,           \* publish_state() calls made by the last call
    ntrig,         \* update() calls per driver
    since,         \* publishes per channel since the driver's last update()
    npub,          \* publishes per channel overall
    scn,           \* progress through the scenario update()@0, loop()@100, loop()@350
    age,           \* milliseconds that really passed since Init (never wraps)
    phaseAt,       \* age at which the driver's current timed wait began
    prog,          \* bus steps the driver has performed since its last update()
    rxOwner        \* the driver whose requestFrom() filled rx (0: nobody yet)

vars == <<kind, state, startRequest, startRead, now, left, rx,
          call, ops, out, ntrig, since, npub, scn,
          age, phaseAt, prog, rxOwner>>

\* ------------------------------------------------------------ pure helpers
ElapsedSigned(t, s) == t - s

\* millis() - start, in the counter's unsigned arithmetic
Elapsed(t, s) == (t - s) % ClockModulus

\* Wire.requestFrom(address, n): the device answers with at most n bytes
RECURSIVE SeqsOfLen(_)
SeqsOfLen(n) ==
    IF n = 0 THEN {<<>>}
    ELSE {Append(s, b) : s \in SeqsOfLen(n - 1), b \in Bytes}

Responses(n) == UNION {SeqsOfLen(k) : k \in 0..n}

RECURSIVE LeafSeqsOfLen(_)
LeafSeqsOfLen(n) ==
    IF n = 0 THEN {<<>>}
    ELSE {Append(s, b) : s \in LeafSeqsOfLen(n - 1), b \in LeafByteValues}

LeafResponses == UNION {LeafSeqsOfLen(k) : k \in 0..LeafBytes}

\* Wire.read(): next buffered byte, -1 when the buffer is empty
WireRead(buf) == IF buf = <<>> THEN -1 ELSE Head(buf)
WireRest(buf) == IF buf = <<>> THEN <<>> ELSE Tail(buf)

Int16LEUnsigned(lo, hi) == lo + 256 * hi

\* int16_t ret; pointer[0] = lo; pointer[1] = hi  (little endian, signed)
Int16LE(lo, hi) ==
    LET u == lo + 256 * hi IN IF u >= 32768 THEN u - 65536 ELSE u

\* ret / 100.0, kept as the number of hundredths
LeafDecode(buf) ==
    << <<"wetness", Int16LE(buf[1], buf[2])>>,
       <<"temperature", Int16LE(buf[3], buf[4])>> >>

\* buf[0] * 0x100 + buf[1] + 10
SenDistance(b0, b1) == b0 * 256 + b1 + 10

LeafWaitOverInclusive(e) == leaf_wait_period <= e

\* wait_period < millis() - startRequest
LeafWaitOver(e) == leaf_wait_period < e
SenWaitOverReversed(e) == sen_wait_period < 0 - e

SenWaitOver(e) == sen_wait_period < e
RequestSettledInverted(e) == request_wait_period > e

\* !(request_wait_period > millis() - startRequest)
RequestSettled(e) == ~(request_wait_period > e)

ReadSettledStrict(e) == ~(read_wait_period >= e)

\* !(read_wait_period > millis() - startRead)
ReadSettled(e) == ~(read_wait_period > e)

\* ----------------------------------------------------------- bookkeeping
NoCall == [name |-> "init", inst |-> 0, from |-> "IDLE", e |-> -1,
           status |-> -1, avail |-> -1]

LoopCall(i, e, st, av) ==
    [name |-> "loop", inst |-> i, from |-> state[i], e |-> e,
     status |-> st, avail |-> av]

\* publish_state() calls of one loop(), counted per channel
Published(i, o) ==
    /\ out' = o
    /\ since' = [since EXCEPT ![i] =
                   [c \in AllChannels |->
                      @[c] + Cardinality({n \in 1..Len(o) : o[n][1] = c})]]
    /\ npub' = [npub EXCEPT ![i] =
                   [c \in AllChannels |->
                      @[c] + Cardinality({n \in 1..Len(o) : o[n][1] = c})]]

Init ==
    /\ kind \in Configs
    /\ state = [i \in Drivers |-> "IDLE"]
    /\ startRequest = [i \in Drivers |-> 0]
    /\ startRead = [i \in Drivers |-> 0]
    /\ now = 0
    /\ left = IF \E i \in Drivers : kind[i] = "LeafWetness"
              THEN MaxElapsedLeaf ELSE MaxElapsedSen
    /\ rx = <<>>
    /\ call = NoCall
    /\ ops = <<>>
    /\ out = <<>>
    /\ ntrig = [i \in Drivers |-> 0]
    /\ since = [i \in Drivers |-> [c \in AllChannels |-> 0]]
    /\ npub = [i \in Drivers |-> [c \in AllChannels |-> 0]]
    /\ scn = 0
    /\ age = 0
    /\ phaseAt = [i \in Drivers |-> 0]
    /\ prog = [i \in Drivers |-> 0]
    /\ rxOwner = 0

\* the scheduler's bounds: two drivers sharing the bus are triggered less
\* often, and a leaf sensor sharing the bus is scheduled coarsely
Shared == kind \in SharedConfigs
SharedLeaf == Shared /\ kind[2] = "LeafWetness"
TickSteps == IF SharedLeaf THEN CoarseDeltas ELSE Deltas
TriggerBudget == IF Shared THEN MaxTriggers - 1 ELSE MaxTriggers

\* the millisecond counter advances between calls
Tick ==
  \E d \in TickSteps :
    /\ d <= left
    /\ now' = (now + d) % ClockModulus
    /\ left' = left - d
    /\ age' = age + d
    /\ call' = [NoCall EXCEPT !.name = "tick"]
    /\ ops' = <<>>
    /\ out' = <<>>
    /\ UNCHANGED <<kind, state, startRequest, startRead, rx, ntrig, since, npub, scn,
                   phaseAt, prog, rxOwner>>

\* The scenario followed by scn, for a leaf sensor:
\*   1  update() was called at t = 0
\*   2  the next call was loop() at t = 100
\*   3  the next call was loop() at t = 350
\*   4  later loop() calls that did not find 4 bytes available
\*   5  a later loop() found 4 bytes available
\* Any other call of the driver leaves the scenario (0).
ScnAfterUpdate(i) ==
    IF kind[i] # "LeafWetness" THEN scn
    ELSE IF now = 0 THEN 1 ELSE 0

ScnAfterLoop(i, av) ==
    IF kind[i] # "LeafWetness" THEN scn
    ELSE IF scn = 1 /\ now = 100 THEN 2
    ELSE IF scn = 2 /\ now = 350 THEN 3
    ELSE IF scn \in {3, 4} THEN (IF av = LeafBytes THEN 5 ELSE 4)
    ELSE 0

UpdateStateIfIdle(s) == IF s = "IDLE" THEN "REQUEST" ELSE s

\* update(): state = REQUEST
UpdateState(s) == "REQUEST"

Update(i) ==
    /\ kind[i] # "none"
    /\ ntrig[i] < TriggerBudget
    /\ state' = [state EXCEPT ![i] = UpdateState(@)]
    /\ ntrig' = [ntrig EXCEPT ![i] = @ + 1]
    /\ since' = [since EXCEPT ![i] = [c \in AllChannels |-> 0]]
    /\ call' = [name |-> "update", inst |-> i, from |-> state[i], e |-> -1,
                status |-> -1, avail |-> -1]
    /\ ops' = <<>>
    /\ out' = <<>>
    /\ scn' = ScnAfterUpdate(i)
    /\ prog' = [prog EXCEPT ![i] = 0]
    /\ UNCHANGED <<kind, startRequest, startRead, now, left, rx, npub,
                   age, phaseAt, rxOwner>>

\* The registers a driver writes: the measurement request, then the address
\* it wants to read from.
RequestReg(k) == IF k = "LeafWetness" THEN <<"REG_READ_ST">> ELSE <<16, 176>>
ReadReg(k) == IF k = "LeafWetness" THEN <<"REG_DATA">> ELSE <<2>>
\* the settle time a driver lets pass after its measurement request
SettleTime(k) ==
    IF k = "LeafWetness" THEN leaf_wait_period
    ELSE IF k = "Sen0590" THEN sen_wait_period
    ELSE request_wait_period

\* phaseAt after a loop() that performed the bus operations o: a timed wait
\* starts with the measurement-request write (startRequest = millis()) and,
\* in the two-phase driver, with the accepted read-address write
\* (startRead = millis())
PhaseAfter(i, o) ==
    IF \E n \in 1..Len(o) : o[n][1] = "write" /\ o[n][2] = RequestReg(kind[i])
    THEN age
    ELSE IF /\ kind[i] = "Sen0590TwoPhase"
            /\ \E n \in 1..Len(o) : /\ o[n][1] = "write"
                                     /\ o[n][2] = ReadReg(kind[i])
                                     /\ o[n][3] = 0
    THEN age
    ELSE phaseAt[i]

\* prog counts the bus steps of a transaction in their order:
\*   0  update() was called (or the driver was never triggered)
\*   1  the measurement request was written
\*   2  the read address was written, the settle time after 1 having passed
\*   3  the bytes were requested from the bus
ProgOp(k, p, op, settled) ==
    IF op[1] = "write" /\ op[2] = RequestReg(k) THEN 1
    ELSE IF op[1] = "write" /\ op[2] = ReadReg(k)
         THEN (IF p = 1 /\ settled THEN 2 ELSE p)
    ELSE IF op[1] = "requestFrom" THEN (IF p = 2 THEN 3 ELSE p)
    ELSE p

RECURSIVE ProgFold(_, _, _, _)
ProgFold(k, p, o, settled) ==
    IF o = <<>> THEN p
    ELSE ProgFold(k, ProgOp(k, p, Head(o), settled), Tail(o), settled)

ProgAfter(i, o) ==
    ProgFold(kind[i], prog[i], o, age - phaseAt[i] >= SettleTime(kind[i]))

\* rx belongs to the driver that called requestFrom() last
OwnerAfter(i, o) ==
    IF \E n \in 1..Len(o) : o[n][1] = "requestFrom" THEN i ELSE rxOwner

\* one loop() call of driver i: its assignments, bus traffic and publishes
Step(i, s, sr, srd, buf, c, o, p) ==
    /\ state' = [state EXCEPT ![i] = s]
    /\ startRequest' = [startRequest EXCEPT ![i] = sr]
    /\ startRead' = [startRead EXCEPT ![i] = srd]
    /\ rx' = buf
    /\ call' = c
    /\ ops' = o
    /\ Published(i, p)
    /\ scn' = ScnAfterLoop(i, c.avail)
    /\ phaseAt' = [phaseAt EXCEPT ![i] = PhaseAfter(i, o)]
    /\ prog' = [prog EXCEPT ![i] = ProgAfter(i, o)]
    /\ rxOwner' = OwnerAfter(i, o)
    /\ UNCHANGED <<kind, now, left, ntrig, age>>

IdleRearms(i) ==
    /\ kind[i] # "none"
    /\ state[i] = "IDLE"
    /\ Step(i, "REQUEST", startRequest[i], startRead[i], rx,
            LoopCall(i, -1, -1, -1), <<>>, <<>>)

\* loop() with state == IDLE: no case of the switch matches
Idle(i) ==
    /\ kind[i] # "none"
    /\ state[i] = "IDLE"
    /\ Step(i, state[i], startRequest[i], startRead[i], rx,
            LoopCall(i, -1, -1, -1), <<>>, <<>>)

\* ------------------------------------------------------------ LeafWetness
LeafReadResultStaysRead(buf) ==
    IF Len(buf) = LeafBytes
    THEN [state |-> "READ", rx |-> <<>>,
          ops |-> << <<"available", LeafBytes>>, <<"read", buf[1]>>,
                     <<"read", buf[2]>>, <<"read", buf[3]>>, <<"read", buf[4]>> >>,
          out |-> LeafDecode(buf)]
    ELSE [state |-> "READ", rx |-> buf,
          ops |-> << <<"available", Len(buf)>> >>, out |-> <<>>]

\* case READ: if (Wire.available() == 4) { read, publish, state = IDLE }
LeafReadResult(buf) ==
    IF Len(buf) = LeafBytes
    THEN [state |-> "IDLE", rx |-> <<>>,
          ops |-> << <<"available", LeafBytes>>, <<"read", buf[1]>>, <<"read", buf[2]>>,
                     <<"read", buf[3]>>, <<"read", buf[4]>> >>,
          out |-> LeafDecode(buf)]
    ELSE [state |-> "READ", rx |-> buf,
          ops |-> << <<"available", Len(buf)>> >>, out |-> <<>>]

LeafRequestKeepsTimer(i) ==
    /\ kind[i] = "LeafWetness"
    /\ state[i] = "REQUEST"
    /\ \E st \in Status :
         Step(i, "WAITING", startRequest[i], startRead[i], rx,
              LoopCall(i, -1, st, -1),
              << <<"write", <<"REG_READ_ST">>, st>> >>, <<>>)

\* case REQUEST: the status of endTransmission() is not looked at
LeafRequest(i) ==
    /\ kind[i] = "LeafWetness"
    /\ state[i] = "REQUEST"
    /\ \E st \in Status :
         Step(i, "WAITING", now, startRead[i], rx, LoopCall(i, -1, st, -1),
              << <<"write", <<"REG_READ_ST">>, st>> >>, <<>>)

LeafWaiting(i) ==
    /\ kind[i] = "LeafWetness"
    /\ state[i] = "WAITING"
    /\ LET e == Elapsed(now, startRequest[i]) IN
         Step(i, IF LeafWaitOver(e) THEN "READY" ELSE "WAITING",
              startRequest[i], startRead[i], rx, LoopCall(i, e, -1, -1),
              <<>>, <<>>)

\* case READY has no break: it falls through into case READ
LeafReady(i) ==
    /\ kind[i] = "LeafWetness"
    /\ state[i] = "READY"
    /\ \E st \in Status, resp \in LeafResponses :
         LET r == LeafReadResult(resp) IN
           Step(i, r.state, startRequest[i], startRead[i], r.rx,
                LoopCall(i, -1, st, Len(resp)),
                << <<"write", <<"REG_DATA">>, st>>,
                   <<"requestFrom", LeafBytes, Len(resp)>> >> \o r.ops,
                r.out)

LeafRead(i) ==
    /\ kind[i] = "LeafWetness"
    /\ state[i] = "READ"
    /\ LET r == LeafReadResult(rx) IN
         Step(i, r.state, startRequest[i], startRead[i], r.rx,
              LoopCall(i, -1, -1, Len(rx)), r.ops, r.out)

\* ------------------------------------------------- Sen0590 (single wait)
SenRequest(i) ==
    /\ kind[i] = "Sen0590"
    /\ state[i] = "REQUEST"
    /\ \E st \in Status :
         Step(i, "WAITING", now, startRead[i], rx, LoopCall(i, -1, st, -1),
              << <<"write", <<16, 176>>, st>> >>, <<>>)

SenWaiting(i) ==
    /\ kind[i] = "Sen0590"
    /\ state[i] = "WAITING"
    /\ LET e == Elapsed(now, startRequest[i]) IN
         Step(i, IF SenWaitOver(e) THEN "READY" ELSE "WAITING",
              startRequest[i], startRead[i], rx, LoopCall(i, e, -1, -1),
              <<>>, <<>>)

WriteFailedIgnored(st) == FALSE

\* if (Wire.endTransmission() != 0) return;
WriteFailed(st) == st # 0

SenReady(i) ==
    /\ kind[i] = "Sen0590"
    /\ state[i] = "READY"
    /\ \E st \in Status :
         IF WriteFailed(st)
         THEN Step(i, state[i], startRequest[i], startRead[i], rx,
                   LoopCall(i, -1, st, -1), << <<"write", <<2>>, st>> >>, <<>>)
         ELSE \E resp \in Responses(SenBytes) :
                Step(i, "READ", startRequest[i], startRead[i], resp,
                     LoopCall(i, -1, st, -1),
                     << <<"write", <<2>>, st>>,
                        <<"requestFrom", SenBytes, Len(resp)>> >>, <<>>)

SenReadResultAtLeast(buf) ==
    IF Len(buf) >= SenBytes
    THEN [state |-> "READ", rx |-> Tail(Tail(buf)),
          ops |-> << <<"available", Len(buf)>>, <<"read", buf[1]>>, <<"read", buf[2]>> >>,
          out |-> << <<"distance", SenDistance(buf[1], buf[2])>> >>]
    ELSE [state |-> "READ", rx |-> buf,
          ops |-> << <<"available", Len(buf)>> >>, out |-> <<>>]

\* case READ publishes but never assigns state
SenReadResult(buf) ==
    IF Len(buf) = SenBytes
    THEN [state |-> "READ", rx |-> <<>>,
          ops |-> << <<"available", SenBytes>>, <<"read", buf[1]>>, <<"read", buf[2]>> >>,
          out |-> << <<"distance", SenDistance(buf[1], buf[2])>> >>]
    ELSE [state |-> "READ", rx |-> buf,
          ops |-> << <<"available", Len(buf)>> >>, out |-> <<>>]

SenRead(i) ==
    /\ kind[i] = "Sen0590"
    /\ state[i] = "READ"
    /\ LET r == SenReadResult(rx) IN
         Step(i, r.state, startRequest[i], startRead[i], r.rx,
              LoopCall(i, -1, -1, Len(rx)), r.ops, r.out)

\* -------------------------------------------- Sen0590TwoPhase (two waits)
TwoRequest(i) ==
    /\ kind[i] = "Sen0590TwoPhase"
    /\ state[i] = "REQUEST"
    /\ \E st \in Status :
         Step(i, "READY", now, startRead[i], rx, LoopCall(i, -1, st, -1),
              << <<"write", <<16, 176>>, st>> >>, <<>>)

TwoReady(i) ==
    /\ kind[i] = "Sen0590TwoPhase"
    /\ state[i] = "READY"
    /\ LET e == Elapsed(now, startRequest[i]) IN
         IF ~RequestSettled(e)
         THEN Step(i, state[i], startRequest[i], startRead[i], rx,
                   LoopCall(i, e, -1, -1), <<>>, <<>>)
         ELSE \E st \in Status :
                IF WriteFailed(st)
                THEN Step(i, state[i], startRequest[i], startRead[i], rx,
                          LoopCall(i, e, st, -1),
                          << <<"write", <<2>>, st>> >>, <<>>)
                ELSE Step(i, "READ", startRequest[i], now, rx,
                          LoopCall(i, e, st, -1),
                          << <<"write", <<2>>, st>> >>, <<>>)

TwoReadWaitsForBytes(i) ==
    /\ kind[i] = "Sen0590TwoPhase"
    /\ state[i] = "READ"
    /\ LET e == Elapsed(now, startRead[i]) IN
         IF ~ReadSettled(e)
         THEN Step(i, state[i], startRequest[i], startRead[i], rx,
                   LoopCall(i, e, -1, -1), <<>>, <<>>)
         ELSE \E resp \in Responses(SenBytes) :
                IF Len(resp) = SenBytes
                THEN Step(i, "IDLE", startRequest[i], startRead[i], <<>>,
                          LoopCall(i, e, -1, -1),
                          << <<"requestFrom", SenBytes, Len(resp)>>,
                             <<"read", resp[1]>>, <<"read", resp[2]>> >>,
                          << <<"distance", SenDistance(resp[1], resp[2])>> >>)
                ELSE Step(i, "READ", startRequest[i], startRead[i], resp,
                          LoopCall(i, e, -1, -1),
                          << <<"requestFrom", SenBytes, Len(resp)>> >>, <<>>)

\* requestFrom(address, 2), then two Wire.read() whatever arrived
TwoRead(i) ==
    /\ kind[i] = "Sen0590TwoPhase"
    /\ state[i] = "READ"
    /\ LET e == Elapsed(now, startRead[i]) IN
         IF ~ReadSettled(e)
         THEN Step(i, state[i], startRequest[i], startRead[i], rx,
                   LoopCall(i, e, -1, -1), <<>>, <<>>)
         ELSE \E resp \in Responses(SenBytes) :
                LET b0 == WireRead(resp)
                    b1 == WireRead(WireRest(resp))
                IN Step(i, "IDLE", startRequest[i], startRead[i],
                        WireRest(WireRest(resp)), LoopCall(i, e, -1, -1),
                        << <<"requestFrom", SenBytes, Len(resp)>>,
                           <<"read", b0>>, <<"read", b1>> >>,
                        << <<"distance", SenDistance(b0, b1)>> >>)

Loop(i) ==
    \/ Idle(i)
    \/ LeafRequest(i) \/ LeafWaiting(i) \/ LeafReady(i) \/ LeafRead(i)
    \/ SenRequest(i) \/ SenWaiting(i) \/ SenReady(i) \/ SenRead(i)
    \/ TwoRequest(i) \/ TwoReady(i) \/ TwoRead(i)

Next ==
    \/ \E i \in Drivers : Update(i)
    \/ \E i \in Drivers : Loop(i)
    \/ Tick

Spec == Init /\ [][Next]_vars

\* One driver alone on the bus, started WrapLead milliseconds before the
\* millisecond counter wraps around to 0.
InitWrap ==
    /\ kind \in SingleConfigs
    /\ state = [i \in Drivers |-> "IDLE"]
    /\ startRequest = [i \in Drivers |-> 0]
    /\ startRead = [i \in Drivers |-> 0]
    /\ now = ClockModulus - WrapLead
    /\ left = IF \E i \in Drivers : kind[i] = "LeafWetness"
              THEN MaxElapsedLeaf ELSE MaxElapsedSen
    /\ rx = <<>>
    /\ call = NoCall
    /\ ops = <<>>
    /\ out = <<>>
    /\ ntrig = [i \in Drivers |-> 0]
    /\ since = [i \in Drivers |-> [c \in AllChannels |-> 0]]
    /\ npub = [i \in Drivers |-> [c \in AllChannels |-> 0]]
    /\ scn = 0
    /\ age = 0
    /\ phaseAt = [i \in Drivers |-> 0]
    /\ prog = [i \in Drivers |-> 0]
    /\ rxOwner = 0

SpecWrap == InitWrap /\ [][Next]_vars

\* One driver alone on the bus under a fair scheduler: loop() is called
\* between any two steps of the clock, a failed command write is retried
\* before the clock moves on and eventually succeeds, and the clock keeps
\* advancing as long as the model lets it.
InitLive ==
    /\ kind \in SingleConfigs
    /\ state = [i \in Drivers |-> "IDLE"]
    /\ startRequest = [i \in Drivers |-> 0]
    /\ startRead = [i \in Drivers |-> 0]
    /\ now = 0
    /\ left = IF \E i \in Drivers : kind[i] = "LeafWetness"
              THEN MaxElapsedLeaf ELSE MaxElapsedLive
    /\ rx = <<>>
    /\ call = NoCall
    /\ ops = <<>>
    /\ out = <<>>
    /\ ntrig = [i \in Drivers |-> 0]
    /\ since = [i \in Drivers |-> [c \in AllChannels |-> 0]]
    /\ npub = [i \in Drivers |-> [c \in AllChannels |-> 0]]
    /\ scn = 0
    /\ age = 0
    /\ phaseAt = [i \in Drivers |-> 0]
    /\ prog = [i \in Drivers |-> 0]
    /\ rxOwner = 0

TickLive ==
    /\ call.name = "loop"
    /\ call.status <= 0
    /\ Tick

\* a loop() none of whose command writes failed
LoopOk(i) == Loop(i) /\ call'.status <= 0

NextLive ==
    \/ \E i \in Drivers : Update(i)
    \/ \E i \in Drivers : Loop(i)
    \/ TickLive

SpecLive ==
    /\ InitLive
    /\ [][NextLive]_vars
    /\ WF_vars(TickLive)
    /\ \A i \in Drivers : WF_vars(LoopOk(i))

TypeOK ==
    /\ kind \in Configs
    /\ \A i \in Drivers : state[i] \in {"IDLE", "REQUEST", "WAITING", "READY", "READ"}
    /\ \A i \in Drivers : kind[i] = "Sen0590TwoPhase" => state[i] # "WAITING"
    /\ now \in 0..(ClockModulus - 1)
    /\ Len(rx) <= LeafBytes
    /\ scn \in 0..5


\* ===================================================================== claims
LastLoop(i) == call.name = "loop" /\ call.inst = i
LoopStep(i) == call'.name = "loop" /\ call'.inst = i
Expected(k) == IF k = "LeafWetness" THEN LeafBytes ELSE SenBytes
WaitPeriod(k) == IF k = "LeafWetness" THEN leaf_wait_period ELSE sen_wait_period

\* C1: update() called in any state leaves state = REQUEST and changes nothing
\* else: the timestamps and the bus buffer are unchanged, no bus operation is
\* performed, nothing is published, the other driver is untouched.
C1_Preemption ==
    [][\A i \in Drivers :
         (call'.name = "update" /\ call'.inst = i) =>
            /\ state'[i] = "REQUEST"
            /\ \A j \in Drivers \ {i} : state'[j] = state[j]
            /\ startRequest' = startRequest
            /\ startRead' = startRead
            /\ rx' = rx
            /\ ops' = <<>>
            /\ out' = <<>>
            /\ npub' = npub]_vars

\* an update() that pre-empted a transaction waiting for its bytes
C1_Witness ==
    \E i \in Drivers :
        /\ call.name = "update" /\ call.inst = i
        /\ call.from = "READ"
        /\ state[i] = "REQUEST"
        /\ startRequest[i] > 0

\* C2: in both single-phase drivers a loop() made in READ that finds exactly
\* the expected number of bytes available publishes and leaves state = IDLE.
C2_ReadCompletes ==
    \A i \in Drivers :
        (/\ LastLoop(i)
         /\ kind[i] \in SinglePhase
         /\ call.from = "READ"
         /\ call.avail = Expected(kind[i]))
        => (state[i] = "IDLE" /\ out # <<>>)

\* C3: every channel is published at most once between two update() calls,
\* and never more often than update() was called.
C3_OncePerTrigger ==
    \A i \in Drivers : \A c \in AllChannels :
        since[i][c] <= 1 /\ npub[i][c] <= ntrig[i]

\* C4 as stated: loop() in WAITING keeps WAITING when e < wait_period and
\* moves to READY when e >= wait_period, the boundary included.
C4_InclusiveBoundary ==
    \A i \in Drivers :
        (LastLoop(i) /\ kind[i] \in SinglePhase /\ call.from = "WAITING")
        => /\ call.e < WaitPeriod(kind[i]) => state[i] = "WAITING"
           /\ call.e >= WaitPeriod(kind[i]) => state[i] = "READY"

\* C4 amended: loop() in WAITING keeps WAITING when e <= wait_period (the
\* boundary e = wait_period included) and moves to READY when e > wait_period.
C4_StrictBoundary ==
    \A i \in Drivers :
        (LastLoop(i) /\ kind[i] \in SinglePhase /\ call.from = "WAITING")
        => /\ call.e = Elapsed(now, startRequest[i])
           /\ call.e <= WaitPeriod(kind[i]) => state[i] = "WAITING"
           /\ call.e > WaitPeriod(kind[i]) => state[i] = "READY"
           /\ ops = <<>> /\ out = <<>>

\* a loop() in WAITING exactly at the boundary
C4_Witness ==
    \E i \in Drivers :
        /\ LastLoop(i) /\ kind[i] = "LeafWetness" /\ call.from = "WAITING"
        /\ call.e = leaf_wait_period
        /\ state[i] = "WAITING"

C6_ReadAddressWriteRetried ==
    [][\A i \in Drivers :
         (kind[i] \in Rangefinders /\ state[i] = "READY" /\ LoopStep(i)) =>
            /\ (call'.status > 0) =>
                  /\ state'[i] = "READY"
                  /\ startRequest' = startRequest
                  /\ startRead' = startRead
                  /\ ops' = << <<"write", <<2>>, call'.status>> >>
                  /\ rx' = rx
                  /\ out' = <<>>
            /\ (kind[i] = "Sen0590"
                \/ Elapsed(now, startRequest[i]) >= request_wait_period) =>
                  (ops' # <<>> /\ ops'[1] = <<"write", <<2>>, call'.status>>)
            /\ state'[i] = "READ" => call'.status = 0
            /\ state'[i] \in {"READY", "READ"}]_vars

\* a failed read-address write that left the driver in READY
C6_Witness ==
    \E i \in Drivers :
        /\ LastLoop(i) /\ kind[i] \in Rangefinders
        /\ call.from = "READY"
        /\ call.status > 0
        /\ state[i] = "READY"
        /\ ops = << <<"write", <<2>>, call.status>> >>

\* C7: in every driver a non-zero status of a command write (in REQUEST or
\* in READY) aborts the loop() call with the state unchanged.
C7_WriteFailureAborts ==
    \A i \in Drivers :
        (LastLoop(i) /\ call.from \in {"REQUEST", "READY"} /\ call.status > 0)
        => state[i] = call.from

\* C8: loop() in IDLE leaves state = IDLE and the timestamps unchanged,
\* performs no bus operation and publishes nothing.
C8_IdleLoopIsNoOp ==
    [][\A i \in Drivers :
         (state[i] = "IDLE" /\ LoopStep(i)) =>
            /\ state' = state
            /\ startRequest' = startRequest
            /\ startRead' = startRead
            /\ rx' = rx
            /\ ops' = <<>>
            /\ out' = <<>>
            /\ npub' = npub]_vars

\* a loop() in IDLE before the first update(), with bytes of another driver's
\* request sitting in the bus buffer
C8_Witness ==
    \E i \in Drivers :
        /\ LastLoop(i) /\ call.from = "IDLE"
        /\ ntrig[i] = 0
        /\ rx # <<>>
        /\ state[i] = "IDLE"

\* C9: in the single-phase drivers a loop() in READ that finds a number of
\* available bytes other than the expected one leaves state = READ, consumes
\* no byte and publishes nothing, whatever the elapsed time.
C9_ReadWaitsForExactCount ==
    [][\A i \in Drivers :
         (/\ kind[i] \in SinglePhase
          /\ state[i] = "READ"
          /\ LoopStep(i)
          /\ Len(rx) # Expected(kind[i])) =>
            /\ state'[i] = "READ"
            /\ rx' = rx
            /\ ops' = << <<"available", Len(rx)>> >>
            /\ out' = <<>>
            /\ npub' = npub
            /\ startRequest' = startRequest]_vars

\* a rangefinder in READ that found more bytes than it expects
C9_Witness ==
    \E i \in Drivers :
        /\ LastLoop(i) /\ kind[i] = "Sen0590"
        /\ call.from = "READ"
        /\ call.avail > SenBytes
        /\ state[i] = "READ"
        /\ Len(rx) = call.avail

\* C10: in the two-phase driver loop() in READY writes register 0x02 iff
\* now - startRequest >= 50, startRead is set to the time of the loop() whose
\* write succeeded, and loop() in READ requests the bytes iff
\* now - startRead >= 20.
C10_InclusiveWaits ==
    [][\A i \in Drivers :
         (kind[i] = "Sen0590TwoPhase" /\ LoopStep(i)) =>
            /\ state[i] = "READY" =>
                 /\ (ops' # <<>>) <=> (Elapsed(now, startRequest[i]) >= request_wait_period)
                 /\ ops' # <<>> => ops' = << <<"write", <<2>>, call'.status>> >>
                 /\ (state'[i] = "READ") <=> (ops' # <<>> /\ call'.status = 0)
                 /\ startRead'[i] = IF state'[i] = "READ" THEN now ELSE startRead[i]
            /\ state[i] = "READ" =>
                 /\ (ops' # <<>>) <=> (Elapsed(now, startRead[i]) >= read_wait_period)
                 /\ ops' # <<>> => (ops'[1][1] = "requestFrom" /\ Len(out') = 1)
                 /\ ops' = <<>> => (out' = <<>> /\ state'[i] = "READ")]_vars

\* both waits ended exactly at their thresholds
C10_Witness ==
    \E i \in Drivers :
        /\ LastLoop(i) /\ kind[i] = "Sen0590TwoPhase"
        /\ call.from = "READ"
        /\ call.e = read_wait_period
        /\ Elapsed(startRead[i], startRequest[i]) = request_wait_period
        /\ out # <<>>

\* C11: in the two-phase driver the first loop() made in READ with
\* now - startRead >= read_wait_period requests 2 bytes, performs two reads,
\* publishes exactly one distance and ends in IDLE, whatever number of bytes
\* the bus delivered; READ is never kept once the read settle has elapsed.
C11_ReadAlwaysCompletes ==
    [][\A i \in Drivers :
         (/\ kind[i] = "Sen0590TwoPhase"
          /\ state[i] = "READ"
          /\ LoopStep(i)
          /\ Elapsed(now, startRead[i]) >= read_wait_period) =>
            /\ Len(ops') = 3
            /\ ops'[1][1] = "requestFrom" /\ ops'[1][2] = SenBytes
            /\ ops'[1][3] \in 0..SenBytes
            /\ ops'[2][1] = "read" /\ ops'[3][1] = "read"
            /\ Len(out') = 1 /\ out'[1][1] = "distance"
            /\ npub'[i]["distance"] = npub[i]["distance"] + 1
            /\ state'[i] = "IDLE"]_vars

\* a read that completed although the bus delivered no byte at all
C11_Witness ==
    \E i \in Drivers :
        /\ LastLoop(i) /\ kind[i] = "Sen0590TwoPhase"
        /\ call.from = "READ"
        /\ call.e >= read_wait_period
        /\ ops # <<>> /\ ops[1] = <<"requestFrom", SenBytes, 0>>
        /\ Len(out) = 1
        /\ state[i] = "IDLE"

\* C12: whenever the leaf driver finds its 4 bytes it publishes wetness first
\* and temperature second, each exactly once; wetness is the signed 16-bit
\* little-endian value of (b0, b1) and temperature that of (b2, b3), both in
\* hundredths: [0x10,0x00,0xC8,0x00] gives 16/100 and 200/100, and a value
\* with the top bit of its high byte set is negative.
C12_LeafDecode ==
    \A i \in Drivers :
        (LastLoop(i) /\ kind[i] = "LeafWetness" /\ call.avail = LeafBytes) =>
            LET n == Len(ops)
                b0 == ops[n - 3][2]
                b1 == ops[n - 2][2]
                b2 == ops[n - 1][2]
                b3 == ops[n][2]
            IN /\ n >= 5
               /\ \A k \in (n - 3)..n : ops[k][1] = "read"
               /\ Len(out) = 2
               /\ out[1][1] = "wetness" /\ out[2][1] = "temperature"
               /\ out[1][2] \in -32768..32767
               /\ (out[1][2] - (b0 + 256 * b1)) % 65536 = 0
               /\ out[2][2] \in -32768..32767
               /\ (out[2][2] - (b2 + 256 * b3)) % 65536 = 0
               /\ b1 >= 128 => out[1][2] < 0
               /\ b3 >= 128 => out[2][2] < 0
               /\ <<b0, b1, b2, b3>> = <<16, 0, 200, 0>> =>
                     (out[1][2] = 16 /\ out[2][2] = 200)

\* the frame [0x10,0x00,0xC8,0x00] was decoded and published
C12_Witness ==
    \E i \in Drivers :
        /\ LastLoop(i) /\ kind[i] = "LeafWetness"
        /\ call.avail = LeafBytes
        /\ Len(ops) >= 5
        /\ <<ops[Len(ops) - 3][2], ops[Len(ops) - 2][2],
             ops[Len(ops) - 1][2], ops[Len(ops)][2]>> = <<16, 0, 200, 0>>
        /\ out = << <<"wetness", 16>>, <<"temperature", 200>> >>

\* C13: every distance a rangefinder publishes is high * 256 + low + 10, where
\* high and low are the two bytes (each 0..255) the call read from the bus, so
\* it lies in 10..65545; [0x01,0x2C] gives 310.
C13_DistanceDecode ==
    \A i \in Drivers :
        (LastLoop(i) /\ kind[i] \in Rangefinders /\ out # <<>>) =>
            LET n == Len(ops)
                high == ops[n - 1][2]
                low == ops[n][2]
            IN /\ ops[n - 1][1] = "read" /\ ops[n][1] = "read"
               /\ high \in 0..255 /\ low \in 0..255
               /\ out = << <<"distance", high * 256 + low + 10>> >>
               /\ out[1][2] \in 10..65545
               /\ <<high, low>> = <<1, 44>> => out[1][2] = 310

\* C14: with two drivers interleaved on the shared bus, a call made on one
\* driver never changes the state, the timestamps or what was published by
\* the other, and a driver only consumes and publishes bytes that its own
\* read request produced.
C14_DriverIndependence ==
    [][\A i \in Drivers :
         (call'.inst = i /\ call'.name \in {"update", "loop"}) =>
            /\ \A j \in Drivers \ {i} :
                  /\ state'[j] = state[j]
                  /\ startRequest'[j] = startRequest[j]
                  /\ startRead'[j] = startRead[j]
                  /\ npub'[j] = npub[j]
            /\ (\E n \in 1..Len(ops') : ops'[n][1] = "read") => rxOwner' = i
            /\ out' # <<>> => rxOwner' = i]_vars

\* C15: a loop() made during a settle wait whose elapsed time is below the
\* threshold (WAITING in the single-phase drivers, READY and READ in the
\* two-phase driver) only compares times: no bus operation, no publish, state,
\* timestamps and bus buffer unchanged.
C15_WaitingLoopIsPure ==
    [][\A i \in Drivers :
         (/\ LoopStep(i)
          /\ \/ /\ kind[i] \in SinglePhase /\ state[i] = "WAITING"
                /\ Elapsed(now, startRequest[i]) < WaitPeriod(kind[i])
             \/ /\ kind[i] = "Sen0590TwoPhase" /\ state[i] = "READY"
                /\ Elapsed(now, startRequest[i]) < request_wait_period
             \/ /\ kind[i] = "Sen0590TwoPhase" /\ state[i] = "READ"
                /\ Elapsed(now, startRead[i]) < read_wait_period) =>
            /\ ops' = <<>>
            /\ out' = <<>>
            /\ state' = state
            /\ startRequest' = startRequest
            /\ startRead' = startRead
            /\ rx' = rx
            /\ npub' = npub]_vars

\* a two-phase driver polled in the middle of its read settle wait, some
\* time after the clock last moved
C15_Witness ==
    \E i \in Drivers :
        /\ LastLoop(i) /\ kind[i] = "Sen0590TwoPhase"
        /\ call.from = "READ"
        /\ call.e > 0 /\ call.e < read_wait_period
        /\ state[i] = "READ"
        /\ startRead[i] > startRequest[i]
        /\ ops = <<>> /\ out = <<>>

\* position of a state in the chain REQUEST -> WAITING -> READY -> READ -> IDLE
\* (the two-phase driver has no WAITING: its chain is REQUEST -> READY -> ...)
Rank(k, st) ==
    IF st = "REQUEST" THEN 0
    ELSE IF st = "WAITING" THEN 1
    ELSE IF st = "READY" THEN (IF k = "Sen0590TwoPhase" THEN 1 ELSE 2)
    ELSE IF st = "READ" THEN (IF k = "Sen0590TwoPhase" THEN 2 ELSE 3)
    ELSE (IF k = "Sen0590TwoPhase" THEN 3 ELSE 4)

\* C16: one loop() call advances the driver by at most one transition of the
\* chain REQUEST -> WAITING -> READY -> READ -> IDLE: a call that starts in
\* READY never ends in IDLE, and in the drivers that issue the read request
\* in READY no call both requests the bytes and publishes.
C16_OneTransitionPerCall ==
    \A i \in Drivers :
        (LastLoop(i) /\ call.from # "IDLE") =>
            /\ Rank(kind[i], state[i]) - Rank(kind[i], call.from) \in {0, 1}
            /\ ~(call.from = "READY" /\ state[i] = "IDLE")
            /\ kind[i] \in SinglePhase =>
                  ~(/\ \E n \in 1..Len(ops) : ops[n][1] = "requestFrom"
                    /\ out # <<>>)

\* C17: nothing is published by a driver that was never triggered, and a
\* driver that publishes has, since its last update(), written the measurement
\* request, let the full settle time pass from that write, written the read
\* address and requested the bytes, in this order; what a pre-empted
\* transaction had done does not count.
C17_FullCycleBeforePublish ==
    \A i \in Drivers :
        /\ ntrig[i] = 0 => \A c \in AllChannels : npub[i][c] = 0
        /\ (LastLoop(i) /\ out # <<>>) =>
              /\ ntrig[i] >= 1
              /\ prog[i] = 3
              /\ kind[i] \in SinglePhase =>
                    age - phaseAt[i] >= SettleTime(kind[i])

\* a publish that followed an update() which had pre-empted a transaction
\* before it published
C17_Witness ==
    \E i \in Drivers :
        /\ LastLoop(i) /\ out # <<>>
        /\ ntrig[i] = 2
        /\ npub[i][out[1][1]] = 1
        /\ prog[i] = 3

\* C19: the elapsed time of a wait is the difference now - start taken in the
\* counter's unsigned arithmetic, so it equals the time that really passed
\* since the wait began also when the counter wrapped in between: the
\* single-phase drivers leave WAITING exactly when more than wait_period has
\* really passed, the two-phase driver leaves its request wait exactly when
\* at least 50 ms and its read wait exactly when at least 20 ms have.
C19_WrapSafeElapsed ==
    [][\A i \in Drivers :
         LoopStep(i) =>
            LET true == age - phaseAt[i] IN
            /\ (kind[i] \in SinglePhase /\ state[i] = "WAITING") =>
                  /\ call'.e = true
                  /\ (state'[i] = "READY") <=> (true > WaitPeriod(kind[i]))
                  /\ (state'[i] = "WAITING") <=> (true <= WaitPeriod(kind[i]))
            /\ (kind[i] = "Sen0590TwoPhase" /\ state[i] = "READY") =>
                  /\ call'.e = true
                  /\ (ops' # <<>>) <=> (true >= request_wait_period)
            /\ (kind[i] = "Sen0590TwoPhase" /\ state[i] = "READ") =>
                  /\ call'.e = true
                  /\ (state'[i] = "IDLE") <=> (true >= read_wait_period)]_vars

\* a wait that began before the counter wrapped and ended after it
C19_Witness ==
    \E i \in Drivers :
        /\ LastLoop(i)
        /\ \/ /\ call.from = "WAITING" /\ state[i] = "READY"
              /\ now < startRequest[i]
              /\ call.e > WaitPeriod(kind[i])
           \/ /\ kind[i] = "Sen0590TwoPhase"
              /\ call.from = "READ" /\ state[i] = "IDLE"
              /\ now < startRead[i]
              /\ call.e >= read_wait_period

\* clock time a transaction needs at most under the fair scheduler
LiveHorizon(k) ==
    IF k = "LeafWetness" THEN leaf_wait_period + 10
    ELSE IF k = "Sen0590" THEN sen_wait_period + 10
    ELSE request_wait_period + 40 + read_wait_period

\* C18: under the fair scheduler every update() made while the clock has
\* time left for a transaction is eventually followed by a publish of the
\* driver's reading with no update() in between, unless the bus did not
\* deliver the requested number of bytes or a later update() came too late
\* for the clock.
C18_TriggerLeadsToPublish ==
    \A i \in Drivers :
        (/\ call.name = "update" /\ call.inst = i
         /\ left >= LiveHorizon(kind[i]))
        ~> \/ /\ prog[i] = 3
              /\ \E c \in AllChannels : since[i][c] >= 1
           \/ /\ kind[i] \in SinglePhase
              /\ state[i] = "READ"
              /\ prog[i] = 3
              /\ Len(rx) # Expected(kind[i])
           \/ /\ call.name = "update" /\ call.inst = i
              /\ left < LiveHorizon(kind[i])

\* the reading of a driver's last transaction was published
C18_Witness ==
    \E i \in Drivers :
        /\ LastLoop(i) /\ out # <<>>
        /\ ntrig[i] = MaxTriggers
        /\ since[i][out[1][1]] = 1
        /\ prog[i] = 3

====
